---- MODULE Spec2Model ----
(***************************************************************************)
(* Ingestion-and-retrieval pipeline of the knowledge-transfer server:      *)
(* the retrying vector-store gateway (server/utils/pinecone_utils.py) and  *)
(* the integration orchestrator (server/utils/integration_manager.py) and  *)
(* the routes that read the store (server/routes/search.py, ask.py,        *)
(* flashcards.py).                                                         *)
(*                                                                         *)
(* Time is modelled by the sequence of store calls and sleeps a gateway    *)
(* call performs (trace).  An error message is a sequence of words; the    *)
(* substring tests of the code are contiguous-word tests on it.            *)
(***************************************************************************)
EXTENDS Integers, Sequences, FiniteSets, TLC

VARIABLES
    entry,          \* the function the caller invoked
    fn,             \* gateway function executing now ("none" when idle)
    max_retries,    \* its max_retries argument
    retry_delay,    \* its retry_delay argument
    attempt,        \* loop variable of `for attempt in range(max_retries)`
    status,         \* "idle" | "running" | "returned" | "raised"
    ret,            \* value returned: "True" | "results" | "None" | "-"
    err,            \* exception raised to the caller (<<>> when none)
    batch,          \* the vectors argument of upsert_chunks
    trace,          \* store calls and sleeps of the current gateway call
    index,          \* records the vector store holds, in arrival order
    faults,         \* store failures so far (bounded by MaxFaults)
    configs,        \* integrate_all_sources: which source configs are given
    srcPos,         \* position in the github, notion, slack sequence
    runPc,          \* "idle" | "dispatch" | "items" | "upserting" | "done"
    data,           \* items the connector returned for the current source
    itemPos,        \* position of the next item of data
    total_chunks,   \* total_chunks of the current integrate_* call
    stored_chunks,  \* stored_chunks of the current integrate_* call
    pending,        \* len(chunks) of the item whose upsert is in progress
    results,        \* the results dict of integrate_all_sources
    nextId,         \* next fresh chunk id (uuid)
    itemsLeft,      \* items the connectors may still return (MaxItems)
    embedLeft,      \* embedding failures that may still occur
    calls,          \* calls made to the connectors and, by a route, to the
                    \* health probe, the embedding service and query_chunks
    request,        \* the request a route handles
    routePc,        \* "idle" | "start" | "health" | "loop" | "query" | "done"
    qIdx,           \* generate_flashcards: position in search_queries
    response,       \* the route's HTTP response (status 0: none yet)
    probe,          \* arguments of check_index_health's index.query call
    dedupIn,        \* _deduplicate_vectors called on its own: the argument
    dedupOut,       \* and the value returned (<<>> before the call)
    chunkArgs,      \* chunk_text called on its own: text, max_tokens, overlap
    chunkOut,       \* and the chunks returned (<<>> before the call)
    ops,            \* integrate_x: the calls made so far for the current item
    runNo           \* which call of integrate_all_sources this is (0: none)

gwVars == <<fn, max_retries, retry_delay, attempt, status, ret, err, batch, trace>>

runVars == <<configs, srcPos, runPc, data, itemPos, total_chunks, stored_chunks,
             pending, results, nextId, itemsLeft, embedLeft>>

routeVars == <<request, routePc, qIdx, response, probe>>

quietVars == <<routeVars, dedupIn, dedupOut, chunkArgs, chunkOut, runNo>>

otherVars == <<quietVars, ops>>

vars == <<entry, gwVars, index, faults, runVars, calls, routeVars, dedupIn, dedupOut,
          chunkArgs, chunkOut, ops, runNo>>

----------------------------------------------------------------------------
(* Bounds of the model *)

MaxRetriesArg == 3      \* largest max_retries argument explored
MaxDelayArg == 2        \* largest retry_delay argument explored
MaxFaults == 3          \* store failures explored in one behaviour

(* Defaults of the code *)
DefaultMaxRetries == 3
DefaultRetryDelay == 1

----------------------------------------------------------------------------
(* Error messages the store client can raise, as word sequences *)

Msg429 == <<"429", "Too", "Many", "Requests">>
MsgRate == <<"Rate", "limit", "exceeded">>
Msg500 == <<"500", "Internal", "Server", "Error">>
Msg503 == <<"503", "Service", "Unavailable">>
MsgConn == <<"Connection", "timeout">>
Msg400 == <<"400", "Bad", "Request">>

ErrorMsgs == {Msg429, MsgRate, Msg500, Msg503, MsgConn, Msg400}

NoError == <<>>

(* str.lower() on one word *)
LowerWord(w) ==
    CASE w = "Too" -> "too"
      [] w = "Many" -> "many"
      [] w = "Requests" -> "requests"
      [] w = "Rate" -> "rate"
      [] w = "Internal" -> "internal"
      [] w = "Server" -> "server"
      [] w = "Error" -> "error"
      [] w = "Service" -> "service"
      [] w = "Unavailable" -> "unavailable"
      [] w = "Connection" -> "connection"
      [] w = "Bad" -> "bad"
      [] w = "Request" -> "request"
      [] OTHER -> w

Lower(msg) == [i \in DOMAIN msg |-> LowerWord(msg[i])]

(* `pat in msg` of Python, on word sequences *)
Contains(msg, pat) ==
    \E i \in 0..(Len(msg) - Len(pat)) :
        \A j \in 1..Len(pat) : msg[i + j] = pat[j]

(* query_chunks, lines 57 and 61: the class of an error message *)
IsRateLimit(msg) ==
    \/ Contains(Lower(msg), <<"too", "many">>)
    \/ Contains(Lower(msg), <<"rate", "limit">>)

IsServerError(msg) ==
    \/ Contains(msg, <<"500">>)
    \/ Contains(Lower(msg), <<"internal", "server", "error">>)

Classify(msg) ==
    IF IsRateLimit(msg) THEN "rate_limit"
    ELSE IF IsServerError(msg) THEN "server_error"
    ELSE "other"

----------------------------------------------------------------------------
(* Trace events *)

CallOk(a) == [ev |-> "call", n |-> a, ok |-> TRUE, msg |-> NoError]
CallFail(a, m) == [ev |-> "call", n |-> a, ok |-> FALSE, msg |-> m]
Sleep(d) == [ev |-> "sleep", n |-> d, ok |-> TRUE, msg |-> NoError]

(* A backoff that does not grow *)
UpsertBackoffConstant(delay, a) == delay

(* upsert_chunks line 30: the backoff after failed attempt a *)
UpsertBackoff(delay, a) == delay * (2 ^ a)

(* The delay of the previous attempt *)
QueryPreDelayPrevious(delay, a) == delay * (2 ^ (a - 1))

(* query_chunks line 41: the delay before attempt a > 0 *)
QueryPreDelay(delay, a) == delay * (2 ^ a)

(* The same wait for both classes *)
QueryWaitSame(delay, a, msg) == delay * (2 ^ a)

(* query_chunks lines 58 and 62: the wait after failed attempt a *)
QueryWait(delay, a, msg) ==
    IF IsRateLimit(msg) THEN delay * (2 ^ a) * 2 ELSE delay * (2 ^ a)

----------------------------------------------------------------------------
(* The vector store client (external): index.upsert / index.query either   *)
(* succeed or raise one of the error messages.                             *)

StoreErrors ==
    IF entry = "integrate_all_sources" THEN {Msg503, Msg429} ELSE ErrorMsgs

(* One record as a direct caller of upsert_chunks passes it *)
SampleBatch ==
    << [id |-> 0, values |-> <<"v">>,
        metadata |-> [text |-> "a", content_hash |-> <<"h", "a">>,
                      source_name |-> "manual", chunk_index |-> 0]] >>

----------------------------------------------------------------------------
(* upsert_chunks(vectors, max_retries, retry_delay) *)

(* Giving up one attempt early, and never giving up *)
UpsertRetriesEarly(a, retries) == a < retries - 2
UpsertRetriesAlways(a, retries) == a < retries

(* line 29: is a failed attempt followed by another one *)
UpsertRetries(a, retries) == a < retries - 1

(* One iteration of the loop, lines 22-33 *)
UpsertAttempt ==
    /\ fn = "upsert_chunks"
    /\ status = "running"
    /\ attempt < max_retries
    /\ \/ /\ trace' = Append(trace, CallOk(attempt))
          /\ index' = index \o batch
          /\ status' = "returned"
          /\ ret' = "True"
          /\ UNCHANGED <<attempt, err, faults>>
       \/ /\ faults < MaxFaults
          /\ \E m \in StoreErrors :
                IF UpsertRetries(attempt, max_retries)
                THEN /\ trace' = trace \o <<CallFail(attempt, m),
                                            Sleep(UpsertBackoff(retry_delay, attempt))>>
                     /\ attempt' = attempt + 1
                     /\ UNCHANGED <<status, err>>
                ELSE /\ trace' = Append(trace, CallFail(attempt, m))
                     /\ status' = "raised"
                     /\ err' = m
                     /\ UNCHANGED attempt
          /\ faults' = faults + 1
          /\ UNCHANGED <<index, ret>>
    /\ UNCHANGED <<entry, fn, max_retries, retry_delay, batch, runVars>>
    /\ UNCHANGED <<calls, otherVars>>

(* A loop that ends by raising when it made no successful call *)
UpsertExitRaises ==
    /\ fn = "upsert_chunks"
    /\ status = "running"
    /\ attempt >= max_retries
    /\ status' = "raised"
    /\ err' = Msg400
    /\ UNCHANGED <<entry, fn, max_retries, retry_delay, attempt, ret, batch,
                   trace, index, faults, runVars>>
    /\ UNCHANGED <<calls, otherVars>>

(* range(max_retries) is exhausted without return or raise: the function   *)
(* falls off its end and returns None                                      *)
UpsertExit ==
    /\ fn = "upsert_chunks"
    /\ status = "running"
    /\ attempt >= max_retries
    /\ status' = "returned"
    /\ ret' = "None"
    /\ UNCHANGED <<entry, fn, max_retries, retry_delay, attempt, err, batch,
                   trace, index, faults, runVars>>
    /\ UNCHANGED <<calls, otherVars>>

----------------------------------------------------------------------------
(* query_chunks(vector, top_k, metadata_filter, max_retries, retry_delay) *)

(* No sleep before any attempt *)
QueryPreludeNever(delay, a) == <<>>

(* lines 40-41: the events before the store call of attempt a *)
QueryPrelude(delay, a) ==
    IF a > 0 THEN <<Sleep(QueryPreDelay(delay, a))>> ELSE <<>>

(* Every error retried, as upsert_chunks does *)
QueryRetryableAlways(msg) == TRUE

(* lines 57-68: does the handler wait and go on (TRUE) or re-raise (FALSE) *)
QueryRetryable(msg) == Classify(msg) # "other"

(* The last attempt taken one too early *)
QueryLastEarly(a, retries) == a = retries - 2

(* line 70: was this the last attempt *)
QueryLast(a, retries) == a = retries - 1

(* One iteration of the loop, lines 37-72 *)
QueryAttempt ==
    /\ fn = "query_chunks"
    /\ status = "running"
    /\ attempt < max_retries
    /\ \/ /\ trace' = trace \o QueryPrelude(retry_delay, attempt)
                             \o <<CallOk(attempt)>>
          /\ status' = "returned"
          /\ ret' = "results"
          /\ UNCHANGED <<attempt, err, faults>>
       \/ /\ faults < MaxFaults
          /\ \E m \in StoreErrors :
                IF ~QueryRetryable(m)
                THEN /\ trace' = trace \o QueryPrelude(retry_delay, attempt)
                                       \o <<CallFail(attempt, m)>>
                     /\ status' = "raised"
                     /\ err' = m
                     /\ UNCHANGED attempt
                ELSE /\ trace' = trace \o QueryPrelude(retry_delay, attempt)
                                       \o <<CallFail(attempt, m),
                                            Sleep(QueryWait(retry_delay, attempt, m))>>
                     /\ IF QueryLast(attempt, max_retries)
                        THEN /\ status' = "raised"
                             /\ err' = m
                             /\ UNCHANGED attempt
                        ELSE /\ attempt' = attempt + 1
                             /\ UNCHANGED <<status, err>>
          /\ faults' = faults + 1
          /\ UNCHANGED ret
    /\ UNCHANGED <<entry, fn, max_retries, retry_delay, batch, index, runVars>>
    /\ UNCHANGED <<calls, otherVars>>

QueryExit ==
    /\ fn = "query_chunks"
    /\ status = "running"
    /\ attempt >= max_retries
    /\ status' = "returned"
    /\ ret' = "None"
    /\ UNCHANGED <<entry, fn, max_retries, retry_delay, attempt, err, batch,
                   trace, index, faults, runVars>>
    /\ UNCHANGED <<calls, otherVars>>

----------------------------------------------------------------------------
(* check_index_health(), lines 74-83 *)

EmbeddingDim == 768     \* line 78, the dimension of the index

(* lines 78-79: the arguments of the probe query *)
ProbeRequest ==
    [vector |-> [i \in 1..EmbeddingDim |-> 0], top_k |-> 1,
     include_metadata |-> FALSE]

(* A probe whose exception is not caught *)
HealthOutcomePropagates(ok) ==
    IF ok THEN [status |-> "returned", ret |-> "True"]
    ELSE [status |-> "raised", ret |-> "-"]

(* lines 80-83: how the function ends after the probe query *)
HealthOutcome(ok) ==
    [status |-> "returned", ret |-> IF ok THEN "True" ELSE "False"]

(* The whole function: one index.query, no loop *)
HealthCheck ==
    /\ fn = "check_index_health"
    /\ status = "running"
    /\ probe' = ProbeRequest
    /\ \/ /\ trace' = Append(trace, CallOk(0))
          /\ status' = HealthOutcome(TRUE).status
          /\ ret' = HealthOutcome(TRUE).ret
       \/ \E m \in StoreErrors :
             /\ trace' = Append(trace, CallFail(0, m))
             /\ status' = HealthOutcome(FALSE).status
             /\ ret' = HealthOutcome(FALSE).ret
    /\ UNCHANGED <<entry, fn, max_retries, retry_delay, attempt, err, batch,
                   index, faults, runVars>>
    /\ UNCHANGED <<calls, request, routePc, qIdx, response, dedupIn, dedupOut,
                   chunkArgs, chunkOut, ops, runNo>>

----------------------------------------------------------------------------
(* A direct call of one gateway function *)

EmptyResults ==
    [success |-> TRUE, integrations |-> <<>>, total_chunks_processed |-> 0,
     total_chunks_stored |-> 0, total_duplicates_removed |-> 0,
     sources_integrated |-> <<>>]

RunIdle ==
    /\ configs = [s \in {"github", "notion", "slack"} |-> FALSE]
    /\ srcPos = 0
    /\ runPc = "idle"
    /\ data = <<>>
    /\ itemPos = 0
    /\ total_chunks = 0
    /\ stored_chunks = 0
    /\ pending = 0
    /\ results = EmptyResults
    /\ nextId = 1
    /\ itemsLeft = 0
    /\ embedLeft = 0

RouteIdle ==
    /\ request = [param |-> FALSE, count |-> 0]
    /\ routePc = "idle"
    /\ qIdx = 0
    /\ response = [status |-> 0, error |-> FALSE, details |-> FALSE]
    /\ probe = <<>>

DedupIdle == dedupIn = <<>> /\ dedupOut = <<>>

ChunkIdle ==
    /\ chunkArgs = [text |-> <<>>, max_tokens |-> 0, overlap |-> 0]
    /\ chunkOut = <<>>

InitGateway ==
    /\ entry \in {"upsert_chunks", "query_chunks", "check_index_health"}
    /\ fn = entry
    /\ max_retries \in (-1)..MaxRetriesArg
    /\ retry_delay \in 1..MaxDelayArg
    /\ attempt = 0
    /\ status = "running"
    /\ ret = "-"
    /\ err = NoError
    /\ batch = IF entry = "upsert_chunks" THEN SampleBatch ELSE <<>>
    /\ trace = <<>>
    /\ index = <<>>
    /\ faults = 0
    /\ RunIdle
    /\ calls = <<>>
    /\ RouteIdle
    /\ DedupIdle
    /\ ChunkIdle
    /\ ops = <<>>
    /\ runNo = 0

NextGateway ==
    \/ UpsertAttempt \/ UpsertExit \/ QueryAttempt \/ QueryExit \/ HealthCheck

SpecGateway == InitGateway /\ [][NextGateway]_vars

----------------------------------------------------------------------------
(* The integration orchestrator, server/utils/integration_manager.py *)

(* The order of the three blocks of integrate_all_sources *)
Sources == <<"github", "notion", "slack">>

(* A content item is modelled by the texts its content is chunked into *)
Contents == {<<>>, <<"a">>, <<"a", "a">>, <<"a", "b">>}

(* An item as a connector returns it; a malformed one lacks "content" *)
Item(c) == [content |-> c, wellFormed |-> TRUE]
MalformedItem == [content |-> <<>>, wellFormed |-> FALSE]
Items == {Item(c) : c \in Contents} \cup {MalformedItem}

(* str(KeyError("content")), raised by item["content"] at line 53 *)
MsgKeyError == <<"'content'">>

MaxItems == 2           \* items the connectors return in one behaviour
MaxEmbedFailures == 1   \* embedding failures in one behaviour

(* generate_content_hash: a deterministic, collision-free digest of a text *)
Fingerprint(text) == <<"sha", text>>

(* chunk_text(content, max_tokens=300, overlap=50) as the orchestrator     *)
(* sees it, the content being given by the texts of its chunks: one chunk  *)
(* per text, chunk_index 0..n-1, ids fresh from firstId on, every text of  *)
(* unit length at its place in the content                                 *)
ChunkText(content, firstId) ==
    [i \in 1..Len(content) |->
        [id |-> firstId + i - 1,
         text |-> content[i],
         content_hash |-> Fingerprint(content[i]),
         chunk_index |-> i - 1,
         start_pos |-> i - 1,
         end_pos |-> i]]

(* get_embedding(text): [] for an empty text or when the service call      *)
(* raises, else the service's vector                                       *)
GetEmbedding(text, serviceOk) ==
    IF text = "" THEN <<>>
    ELSE IF serviceOk THEN <<"vec", text>>
    ELSE <<>>

(* A vector_data dict that numbers every chunk 0 *)
VectorDataUnnumbered(chunk, source, embedding) ==
    [id |-> chunk.id,
     values |-> embedding,
     metadata |-> [text |-> chunk.text,
                   content_hash |-> chunk.content_hash,
                   source_name |-> source,
                   chunk_index |-> 0,
                   start_pos |-> chunk.start_pos,
                   end_pos |-> chunk.end_pos]]

(* lines 58-77: the vector_data dict built for one chunk *)
VectorData(chunk, source, embedding) ==
    [id |-> chunk.id,
     values |-> embedding,
     metadata |-> [text |-> chunk.text,
                   content_hash |-> chunk.content_hash,
                   source_name |-> source,
                   chunk_index |-> chunk.chunk_index,
                   start_pos |-> chunk.start_pos,
                   end_pos |-> chunk.end_pos]]

(* lines 55-78: the vectors list of one item; failing is the set of chunk  *)
(* positions whose embedding call fails                                    *)
BuildVectors(chunks, source, failing) ==
    [i \in 1..Len(chunks) |->
        VectorData(chunks[i], source, GetEmbedding(chunks[i].text, i \notin failing))]

(* line 354: what metadata.get("content_hash") gives for a missing key *)
MissingHash == <<"None">>

(* Every content_hash taken as true *)
TruthyAlways(content_hash) == TRUE

(* line 355: the truth value of `content_hash`: None and "" are false *)
Truthy(content_hash) == content_hash # <<>> /\ content_hash # MissingHash

(* The test of line 355 without its `not in seen_hashes` part *)
KeepVectorIgnoresSeen(vector, seen) == Truthy(vector.metadata.content_hash)

(* A test that also looks the hash up among the records of the store *)
KeepVectorUnlessStored(vector, seen) ==
    /\ Truthy(vector.metadata.content_hash)
    /\ vector.metadata.content_hash \notin seen
    /\ \A k \in DOMAIN index :
          index[k].metadata.content_hash # vector.metadata.content_hash

(* line 355: `if content_hash and content_hash not in seen_hashes` *)
KeepVector(vector, seen) ==
    /\ Truthy(vector.metadata.content_hash)
    /\ vector.metadata.content_hash \notin seen

RECURSIVE DedupFrom(_, _, _, _)
DedupFrom(vectors, i, seen, unique) ==
    IF i > Len(vectors) THEN unique
    ELSE IF KeepVector(vectors[i], seen)
         THEN DedupFrom(vectors, i + 1, seen \cup {vectors[i].metadata.content_hash},
                        Append(unique, vectors[i]))
         ELSE DedupFrom(vectors, i + 1, seen, unique)

(* _deduplicate_vectors, lines 348-359 *)
DeduplicateVectors(vectors) == DedupFrom(vectors, 1, {}, <<>>)

SourceTitle(source) ==
    CASE source = "github" -> "GitHub"
      [] source = "notion" -> "Notion"
      [] source = "slack" -> "Slack"

(* lines 41-46: the result when the connector returned nothing *)
NoDataResult(source) ==
    [success |-> FALSE,
     error |-> <<"No data found or", SourceTitle(source), "token not configured">>,
     chunks_processed |-> 0, chunks_stored |-> 0]

(* lines 100-106: the result of the except handler *)
FailedResult(source, e) ==
    [success |-> FALSE,
     error |-> <<SourceTitle(source), "integration failed:">> \o e,
     chunks_processed |-> 0, chunks_stored |-> 0]

(* A completed run reporting the stored chunks as the removed ones *)
SuccessResultStoredAsRemoved(source, n, total, stored) ==
    [success |-> TRUE, documents_processed |-> n,
     chunks_processed |-> total, chunks_stored |-> stored,
     duplicates_removed |-> stored, integration |-> source]

(* lines 90-98: the result of a completed run *)
SuccessResult(source, n, total, stored) ==
    [success |-> TRUE, documents_processed |-> n,
     chunks_processed |-> total, chunks_stored |-> stored,
     duplicates_removed |-> total - stored, integration |-> source]

(* The aggregation adding the processed chunks to the stored total *)
CollectProcessedAsStored(res, source, r) ==
    IF r.success
    THEN [res EXCEPT !.integrations = Append(@, r),
                     !.sources_integrated = Append(@, source),
                     !.total_chunks_processed = @ + r.chunks_processed,
                     !.total_chunks_stored = @ + r.chunks_processed,
                     !.total_duplicates_removed = @ + r.duplicates_removed]
    ELSE [res EXCEPT !.integrations = Append(@, r)]

(* An aggregation in which a failed source fails the whole run *)
CollectFailureFailsRun(res, source, r) ==
    IF r.success
    THEN [res EXCEPT !.integrations = Append(@, r),
                     !.sources_integrated = Append(@, source),
                     !.total_chunks_processed = @ + r.chunks_processed,
                     !.total_chunks_stored = @ + r.chunks_stored,
                     !.total_duplicates_removed = @ + r.duplicates_removed]
    ELSE [res EXCEPT !.integrations = Append(@, r), !.success = FALSE]

(* lines 293-298: one source's result entered into the results dict *)
Collect(res, source, r) ==
    IF r.success
    THEN [res EXCEPT !.integrations = Append(@, r),
                     !.sources_integrated = Append(@, source),
                     !.total_chunks_processed = @ + r.chunks_processed,
                     !.total_chunks_stored = @ + r.chunks_stored,
                     !.total_duplicates_removed = @ + r.duplicates_removed]
    ELSE [res EXCEPT !.integrations = Append(@, r)]

GatewayIdle ==
    /\ fn = "none" /\ max_retries = 0 /\ retry_delay = 0 /\ attempt = 0
    /\ status = "idle" /\ ret = "-" /\ err = NoError /\ batch = <<>>
    /\ trace = <<>>

(* The call frame of upsert_chunks is gone once the caller has its outcome *)
GatewayReset ==
    /\ fn' = "none" /\ max_retries' = 0 /\ retry_delay' = 0 /\ attempt' = 0
    /\ status' = "idle" /\ ret' = "-" /\ err' = NoError /\ batch' = <<>>
    /\ trace' = <<>>

(* lines 38, 115, 197: one call of a connector and what it gave back *)
ConnectorCall(source, outcome) == [op |-> "connector", arg |-> source, out |-> outcome]

Dispatching == runPc = "dispatch" /\ srcPos \in DOMAIN Sources

(* A source without configuration reported as one that found no data *)
SkipSourceAsFailure ==
    /\ Dispatching
    /\ ~configs[Sources[srcPos]]
    /\ results' = Collect(results, Sources[srcPos], NoDataResult(Sources[srcPos]))
    /\ srcPos' = srcPos + 1
    /\ UNCHANGED <<entry, gwVars, index, faults, configs, runPc, data, itemPos,
                   total_chunks, stored_chunks, pending, nextId, itemsLeft,
                   embedLeft>>
    /\ UNCHANGED <<calls, otherVars>>

(* lines 288, 301, 316: `if x_config:` is false, the block is skipped *)
SkipSource ==
    /\ Dispatching
    /\ ~configs[Sources[srcPos]]
    /\ srcPos' = srcPos + 1
    /\ UNCHANGED <<entry, gwVars, index, faults, configs, runPc, data, itemPos,
                   total_chunks, stored_chunks, pending, results, nextId,
                   itemsLeft, embedLeft>>
    /\ UNCHANGED <<calls, otherVars>>

(* An empty connector result run through the item loop: a completed run   *)
(* of no documents                                                         *)
FetchEmptyCompletes ==
    /\ Dispatching
    /\ configs[Sources[srcPos]]
    /\ results' = Collect(results, Sources[srcPos],
                          SuccessResult(Sources[srcPos], 0, 0, 0))
    /\ srcPos' = srcPos + 1
    /\ UNCHANGED <<entry, gwVars, index, faults, configs, runPc, data, itemPos,
                   total_chunks, stored_chunks, pending, nextId, itemsLeft,
                   embedLeft>>
    /\ calls' = Append(calls, ConnectorCall(Sources[srcPos], "empty"))
    /\ UNCHANGED otherVars

(* integrate_x, lines 38-46: the connector returns an empty or null result *)
FetchEmpty ==
    /\ Dispatching
    /\ configs[Sources[srcPos]]
    /\ results' = Collect(results, Sources[srcPos], NoDataResult(Sources[srcPos]))
    /\ srcPos' = srcPos + 1
    /\ UNCHANGED <<entry, gwVars, index, faults, configs, runPc, data, itemPos,
                   total_chunks, stored_chunks, pending, nextId, itemsLeft,
                   embedLeft>>
    /\ calls' = Append(calls, ConnectorCall(Sources[srcPos], "empty"))
    /\ UNCHANGED otherVars

(* The connector's exception escaping integrate_x: the handler of          *)
(* integrate_all_sources would end the whole run with an empty list        *)
FetchRaisesAborts ==
    /\ Dispatching
    /\ configs[Sources[srcPos]]
    /\ results' = [EmptyResults EXCEPT !.success = FALSE]
    /\ srcPos' = Len(Sources) + 1
    /\ runPc' = "done"
    /\ UNCHANGED <<entry, gwVars, index, faults, configs, data, itemPos,
                   total_chunks, stored_chunks, pending, nextId, itemsLeft,
                   embedLeft>>
    /\ calls' = Append(calls, ConnectorCall(Sources[srcPos], "raised"))
    /\ UNCHANGED otherVars

(* integrate_x, line 38 and lines 100-106: the connector raises *)
FetchRaises ==
    /\ Dispatching
    /\ configs[Sources[srcPos]]
    /\ results' = Collect(results, Sources[srcPos],
                          FailedResult(Sources[srcPos], MsgConn))
    /\ srcPos' = srcPos + 1
    /\ UNCHANGED <<entry, gwVars, index, faults, configs, runPc, data, itemPos,
                   total_chunks, stored_chunks, pending, nextId, itemsLeft,
                   embedLeft>>
    /\ calls' = Append(calls, ConnectorCall(Sources[srcPos], "raised"))
    /\ UNCHANGED otherVars

(* integrate_x, lines 38-50: the connector returns items *)
FetchData ==
    /\ Dispatching
    /\ configs[Sources[srcPos]]
    /\ \E n \in 1..itemsLeft :
         /\ data' \in [1..n -> Items]
         /\ itemsLeft' = itemsLeft - n
    /\ itemPos' = 1
    /\ total_chunks' = 0
    /\ stored_chunks' = 0
    /\ runPc' = "items"
    /\ UNCHANGED <<entry, gwVars, index, faults, configs, srcPos, pending,
                   results, nextId, embedLeft>>
    /\ calls' = Append(calls, ConnectorCall(Sources[srcPos], "data"))
    /\ UNCHANGED otherVars

(* An upsert requested for every batch, empty or not *)
ShouldUpsertAlways(unique_vectors) == TRUE

(* line 84: `if unique_vectors:` *)
ShouldUpsert(unique_vectors) == unique_vectors # <<>>

(* One call integrate_x makes for an item; n is the chunk id for           *)
(* get_embedding and the length of the argument otherwise                  *)
ItemOp(op, n) == [op |-> op, n |-> n]

(* The calls for an item with the store written first *)
ItemOpsUpsertFirst(content, chunks, unique_vectors) ==
    (IF ShouldUpsert(unique_vectors)
     THEN <<ItemOp("upsert_chunks", Len(unique_vectors))>> ELSE <<>>)
    \o <<ItemOp("chunk_text", Len(content))>>
    \o [i \in 1..Len(chunks) |-> ItemOp("get_embedding", chunks[i].id)]
    \o <<ItemOp("_deduplicate_vectors", Len(chunks))>>

(* lines 53, 57, 81, 85: the calls made for one item, in their order *)
ItemOps(content, chunks, unique_vectors) ==
    <<ItemOp("chunk_text", Len(content))>>
    \o [i \in 1..Len(chunks) |-> ItemOp("get_embedding", chunks[i].id)]
    \o <<ItemOp("_deduplicate_vectors", Len(chunks))>>
    \o (IF ShouldUpsert(unique_vectors)
        THEN <<ItemOp("upsert_chunks", Len(unique_vectors))>> ELSE <<>>)

(* integrate_x, lines 52-88: one item is chunked, its chunks embedded, the *)
(* batch deduplicated and, when not empty, handed to upsert_chunks         *)
ProcessItem ==
    /\ runPc = "items"
    /\ itemPos <= Len(data)
    /\ data[itemPos].wellFormed
    /\ LET chunks == ChunkText(data[itemPos].content, nextId)
       IN \E failing \in SUBSET (1..Len(chunks)) :
            /\ Cardinality(failing) <= embedLeft
            /\ embedLeft' = embedLeft - Cardinality(failing)
            /\ nextId' = nextId + Len(chunks)
            /\ LET unique_vectors ==
                     DeduplicateVectors(
                         BuildVectors(chunks, Sources[srcPos], failing))
               IN /\ ops' = ItemOps(data[itemPos].content, chunks, unique_vectors)
                  /\ IF ShouldUpsert(unique_vectors)
                     THEN /\ fn' = "upsert_chunks"
                          /\ max_retries' = DefaultMaxRetries
                          /\ retry_delay' = DefaultRetryDelay
                          /\ attempt' = 0
                          /\ status' = "running"
                          /\ batch' = unique_vectors
                          /\ trace' = <<>>
                          /\ pending' = Len(chunks)
                          /\ runPc' = "upserting"
                          /\ UNCHANGED <<ret, err, itemPos, total_chunks,
                                         stored_chunks>>
                     ELSE /\ total_chunks' = total_chunks + Len(chunks)
                          /\ stored_chunks' = stored_chunks + Len(unique_vectors)
                          /\ itemPos' = itemPos + 1
                          /\ UNCHANGED <<gwVars, pending, runPc>>
    /\ UNCHANGED <<entry, index, faults, configs, srcPos, data, results,
                   itemsLeft>>
    /\ UNCHANGED <<calls, quietVars>>

(* lines 53 and 100-106: reading the item raises (no per-item handler);   *)
(* the except handler of integrate_x returns the failed result            *)
ItemRaises ==
    /\ runPc = "items"
    /\ itemPos <= Len(data)
    /\ ~data[itemPos].wellFormed
    /\ results' = Collect(results, Sources[srcPos],
                          FailedResult(Sources[srcPos], MsgKeyError))
    /\ srcPos' = srcPos + 1
    /\ runPc' = "dispatch"
    /\ data' = <<>>
    /\ itemPos' = 0
    /\ total_chunks' = 0
    /\ stored_chunks' = 0
    /\ ops' = <<>>
    /\ UNCHANGED <<entry, gwVars, index, faults, configs, pending, nextId,
                   itemsLeft, embedLeft, calls, quietVars>>

(* lines 85-88: upsert_chunks returned, the item is counted *)
UpsertReturned ==
    /\ runPc = "upserting"
    /\ status = "returned"
    /\ total_chunks' = total_chunks + pending
    /\ stored_chunks' = stored_chunks + Len(batch)
    /\ itemPos' = itemPos + 1
    /\ pending' = 0
    /\ runPc' = "items"
    /\ GatewayReset
    /\ UNCHANGED <<entry, index, faults, configs, srcPos, data, results,
                   nextId, itemsLeft, embedLeft>>
    /\ UNCHANGED <<calls, otherVars>>

(* The failure caught per item: the item is skipped and the run goes on *)
UpsertRaisedSkipsItem ==
    /\ runPc = "upserting"
    /\ status = "raised"
    /\ total_chunks' = total_chunks + pending
    /\ itemPos' = itemPos + 1
    /\ pending' = 0
    /\ runPc' = "items"
    /\ GatewayReset
    /\ UNCHANGED <<entry, index, faults, configs, srcPos, data, results,
                   stored_chunks, nextId, itemsLeft, embedLeft, calls, otherVars>>

(* lines 85 and 100-106: upsert_chunks raised, the except handler returns  *)
(* the failed result of the source                                         *)
UpsertRaised ==
    /\ runPc = "upserting"
    /\ status = "raised"
    /\ results' = Collect(results, Sources[srcPos],
                          FailedResult(Sources[srcPos], err))
    /\ srcPos' = srcPos + 1
    /\ runPc' = "dispatch"
    /\ data' = <<>>
    /\ itemPos' = 0
    /\ total_chunks' = 0
    /\ stored_chunks' = 0
    /\ pending' = 0
    /\ GatewayReset
    /\ ops' = <<>>
    /\ UNCHANGED <<entry, index, faults, configs, nextId, itemsLeft, embedLeft>>
    /\ UNCHANGED <<calls, quietVars>>

(* lines 90-98: the item loop is over, the source's result is returned *)
FinishSource ==
    /\ runPc = "items"
    /\ itemPos > Len(data)
    /\ results' = Collect(results, Sources[srcPos],
                          SuccessResult(Sources[srcPos], Len(data),
                                        total_chunks, stored_chunks))
    /\ srcPos' = srcPos + 1
    /\ runPc' = "dispatch"
    /\ data' = <<>>
    /\ itemPos' = 0
    /\ total_chunks' = 0
    /\ stored_chunks' = 0
    /\ ops' = <<>>
    /\ UNCHANGED <<entry, gwVars, index, faults, configs, pending, nextId,
                   itemsLeft, embedLeft>>
    /\ UNCHANGED <<calls, quietVars>>

(* line 335: integrate_all_sources returns results *)
ReturnAll ==
    /\ runPc = "dispatch"
    /\ srcPos > Len(Sources)
    /\ runPc' = "done"
    /\ UNCHANGED <<entry, gwVars, index, faults, configs, srcPos, data, itemPos,
                   total_chunks, stored_chunks, pending, results, nextId,
                   itemsLeft, embedLeft>>
    /\ UNCHANGED <<calls, otherVars>>

InitRun ==
    /\ entry = "integrate_all_sources"
    /\ GatewayIdle
    /\ index = <<>>
    /\ faults = 0
    /\ configs \in [{"github", "notion", "slack"} -> BOOLEAN]
    /\ srcPos = 1
    /\ runPc = "dispatch"
    /\ data = <<>>
    /\ itemPos = 0
    /\ total_chunks = 0
    /\ stored_chunks = 0
    /\ pending = 0
    /\ results = EmptyResults
    /\ nextId = 1
    /\ itemsLeft = MaxItems
    /\ embedLeft = MaxEmbedFailures
    /\ calls = <<>>
    /\ RouteIdle
    /\ DedupIdle
    /\ ChunkIdle
    /\ ops = <<>>
    /\ runNo = 1

NextRun ==
    \/ SkipSource \/ FetchEmpty \/ FetchRaises \/ FetchData
    \/ ProcessItem \/ ItemRaises \/ UpsertAttempt \/ UpsertReturned \/ UpsertRaised
    \/ FinishSource \/ ReturnAll

SpecRun == InitRun /\ [][NextRun]_vars

(* A gateway function called directly or by a run of the orchestrator *)
NextGatewayRun == NextGateway \/ NextRun

SpecGatewayRun == (InitGateway \/ InitRun) /\ [][NextGatewayRun]_vars

----------------------------------------------------------------------------
(* Successive calls of integrate_all_sources against the same store *)

MaxRuns == 2            \* calls of integrate_all_sources in one behaviour

(* lines 271-285: the next call starts with a new results dict and with    *)
(* nothing but the store carried over from the call before                 *)
Rerun ==
    /\ runPc = "done"
    /\ runNo < MaxRuns
    /\ runNo' = runNo + 1
    /\ results' = EmptyResults
    /\ srcPos' = 1
    /\ runPc' = "dispatch"
    /\ calls' = <<>>
    /\ UNCHANGED <<entry, gwVars, index, faults, configs, data, itemPos,
                   total_chunks, stored_chunks, pending, nextId, itemsLeft,
                   embedLeft,
                   routeVars, dedupIn, dedupOut, chunkArgs, chunkOut, ops>>

(* Calls with the configuration of github only *)
InitRerun ==
    /\ InitRun
    /\ configs = [github |-> TRUE, notion |-> FALSE, slack |-> FALSE]

NextRerun == NextRun \/ Rerun

SpecRerun == InitRerun /\ [][NextRerun]_vars

----------------------------------------------------------------------------
(* The routes that read the store: POST /search (routes/search.py),        *)
(* POST /ask (routes/ask.py), POST /generate-flashcards                    *)
(* (routes/flashcards.py)                                                  *)

MaxCount == 1           \* largest "count" of a generate-flashcards request

TotalQueries == 18      \* flashcards.py lines 35-54, len(search_queries)

(* flashcards.py line 60: len(search_queries[:min(count * 2, len(...))]) *)
NumQueries(count) == IF count * 2 < TotalQueries THEN count * 2 ELSE TotalQueries

(* One call a route makes, and what it gave back where that is known *)
RouteCall(op, outcome) == [op |-> op, arg |-> entry, out |-> outcome]

NoResponse == [status |-> 0, error |-> FALSE, details |-> FALSE]

(* search.py line 18, ask.py line 18 *)
MissingParamResponse == [status |-> 400, error |-> TRUE, details |-> FALSE]

(* search.py lines 23-26, ask.py lines 23-26, flashcards.py lines 26-29 *)
UnavailableResponse == [status |-> 503, error |-> TRUE, details |-> TRUE]

(* search.py lines 54-59, ask.py lines 73-79, flashcards.py lines 148-153 *)
SuccessResponse == [status |-> 200, error |-> FALSE, details |-> FALSE]

(* flashcards.py line 157 *)
FlashcardsFailedResponse == [status |-> 500, error |-> TRUE, details |-> FALSE]

(* search.py line 76, ask.py line 96 *)
IsConnectionError(msg) ==
    \/ Contains(Lower(msg), <<"connection">>)
    \/ Contains(Lower(msg), <<"timeout">>)

(* search.py lines 66-85, ask.py lines 86-105: the status of the handler *)
ErrorStatus(msg) ==
    IF IsRateLimit(msg) THEN 429
    ELSE IF IsServerError(msg) THEN 503
    ELSE IF IsConnectionError(msg) THEN 503
    ELSE 500

ErrorResponse(msg) == [status |-> ErrorStatus(msg), error |-> TRUE, details |-> TRUE]

(* The frame of a gateway function called with its default arguments *)
GatewayCall(f) ==
    /\ fn' = f
    /\ max_retries' = IF f = "check_index_health" THEN 0 ELSE DefaultMaxRetries
    /\ retry_delay' = IF f = "check_index_health" THEN 0 ELSE DefaultRetryDelay
    /\ attempt' = 0
    /\ status' = "running"
    /\ ret' = "-"
    /\ err' = NoError
    /\ batch' = <<>>
    /\ trace' = <<>>

TakesParam == entry \in {"search", "ask"}

(* search.py lines 17-18, ask.py lines 17-18 *)
RejectMissing ==
    /\ routePc = "start"
    /\ TakesParam
    /\ ~request.param
    /\ response' = MissingParamResponse
    /\ routePc' = "done"
    /\ UNCHANGED <<entry, gwVars, index, faults, runVars, calls, request, qIdx,
                   probe, dedupIn, dedupOut, chunkArgs, chunkOut, ops, runNo>>

(* search.py line 22, ask.py line 22, flashcards.py line 25: the call *)
CallHealth ==
    /\ routePc = "start"
    /\ TakesParam => request.param
    /\ GatewayCall("check_index_health")
    /\ calls' = Append(calls, RouteCall("check_index_health", "-"))
    /\ routePc' = "health"
    /\ UNCHANGED <<entry, index, faults, runVars, request, qIdx, response,
                   probe, dedupIn, dedupOut, chunkArgs, chunkOut, ops, runNo>>

(* get_embedding(text) then query_chunks(embedding, ...): search.py lines  *)
(* 30-34, ask.py lines 30-34, flashcards.py lines 63-66; get_embedding     *)
(* gives [] when the service fails                                         *)
EmbedAndQuery ==
    /\ \E ok \in BOOLEAN :
         calls' = calls \o <<RouteCall("get_embedding",
                                       IF ok THEN "vector" ELSE "empty"),
                             RouteCall("query_chunks", "-")>>
    /\ GatewayCall("query_chunks")
    /\ routePc' = "query"

(* A gate that lets the request through whatever the probe said *)
GateUnavailableProceeds ==
    /\ routePc = "health"
    /\ status = "returned"
    /\ ret = "False"
    /\ EmbedAndQuery
    /\ UNCHANGED <<entry, index, faults, runVars, request, qIdx, response,
                   probe, dedupIn, dedupOut, chunkArgs, chunkOut, ops, runNo>>

(* search.py lines 22-26, ask.py lines 22-26, flashcards.py lines 25-29:   *)
(* the probe said False                                                    *)
GateUnavailable ==
    /\ routePc = "health"
    /\ status = "returned"
    /\ ret = "False"
    /\ response' = UnavailableResponse
    /\ routePc' = "done"
    /\ GatewayReset
    /\ UNCHANGED <<entry, index, faults, runVars, calls, request, qIdx, probe,
                   dedupIn, dedupOut, chunkArgs, chunkOut, ops, runNo>>

(* search.py lines 22-34, ask.py lines 22-34: the probe said True *)
GatePassed ==
    /\ routePc = "health"
    /\ status = "returned"
    /\ ret = "True"
    /\ TakesParam
    /\ EmbedAndQuery
    /\ UNCHANGED <<entry, index, faults, runVars, request, qIdx, response,
                   probe, dedupIn, dedupOut, chunkArgs, chunkOut, ops, runNo>>

(* search.py lines 36-59; ask.py lines 36-79, where get_chat_completion    *)
(* (line 57) can raise into the handler of lines 81-105                    *)
QueryReturned ==
    /\ routePc = "query"
    /\ TakesParam
    /\ status = "returned"
    /\ IF entry = "search"
       THEN /\ response' = SuccessResponse
            /\ calls' = calls
       ELSE \/ /\ response' = SuccessResponse
               /\ calls' = Append(calls, RouteCall("get_chat_completion", "answer"))
            \/ \E m \in ErrorMsgs :
                  /\ response' = ErrorResponse(m)
                  /\ calls' = Append(calls, RouteCall("get_chat_completion", "raised"))
    /\ routePc' = "done"
    /\ GatewayReset
    /\ UNCHANGED <<entry, index, faults, runVars, request, qIdx, probe,
                   dedupIn, dedupOut, chunkArgs, chunkOut, ops, runNo>>

(* search.py lines 61-85, ask.py lines 81-105: query_chunks raised *)
QueryRaised ==
    /\ routePc = "query"
    /\ TakesParam
    /\ status = "raised"
    /\ response' = ErrorResponse(err)
    /\ routePc' = "done"
    /\ GatewayReset
    /\ UNCHANGED <<entry, index, faults, runVars, calls, request, qIdx, probe,
                   dedupIn, dedupOut, chunkArgs, chunkOut, ops, runNo>>

(* flashcards.py lines 25-58: the probe said True, the loop is entered *)
FlashcardsGatePassed ==
    /\ routePc = "health"
    /\ status = "returned"
    /\ ret = "True"
    /\ entry = "generate_flashcards"
    /\ qIdx' = 0
    /\ routePc' = "loop"
    /\ GatewayReset
    /\ UNCHANGED <<entry, index, faults, runVars, calls, request, response,
                   probe, dedupIn, dedupOut, chunkArgs, chunkOut, ops, runNo>>

(* flashcards.py lines 60-66: the next of the selected search queries *)
FlashcardsQuery ==
    /\ routePc = "loop"
    /\ qIdx < NumQueries(request.count)
    /\ EmbedAndQuery
    /\ UNCHANGED <<entry, index, faults, runVars, request, qIdx, response,
                   probe, dedupIn, dedupOut, chunkArgs, chunkOut, ops, runNo>>

(* flashcards.py lines 68-84: the matches are collected, or the exception  *)
(* of query_chunks is logged by the inner handler; the loop goes on        *)
FlashcardsQueryDone ==
    /\ routePc = "query"
    /\ entry = "generate_flashcards"
    /\ status \in {"returned", "raised"}
    /\ qIdx' = qIdx + 1
    /\ routePc' = "loop"
    /\ GatewayReset
    /\ UNCHANGED <<entry, index, faults, runVars, calls, request, response,
                   probe, dedupIn, dedupOut, chunkArgs, chunkOut, ops, runNo>>

(* flashcards.py lines 86-157: the cards are built and returned, or an     *)
(* exception outside the loop reaches the outer handler                    *)
FlashcardsBuild ==
    /\ routePc = "loop"
    /\ qIdx >= NumQueries(request.count)
    /\ response' \in {SuccessResponse, FlashcardsFailedResponse}
    /\ routePc' = "done"
    /\ UNCHANGED <<entry, gwVars, index, faults, runVars, calls, request, qIdx,
                   probe, dedupIn, dedupOut, chunkArgs, chunkOut, ops, runNo>>

InitRoute ==
    /\ entry \in {"search", "ask", "generate_flashcards"}
    /\ GatewayIdle
    /\ index = <<>>
    /\ faults = 0
    /\ RunIdle
    /\ calls = <<>>
    /\ request \in IF TakesParam
                   THEN [param : BOOLEAN, count : {0}]
                   ELSE [param : {FALSE}, count : 0..MaxCount]
    /\ routePc = "start"
    /\ qIdx = 0
    /\ response = NoResponse
    /\ probe = <<>>
    /\ DedupIdle
    /\ ChunkIdle
    /\ ops = <<>>
    /\ runNo = 0

NextRoute ==
    \/ RejectMissing \/ CallHealth \/ HealthCheck \/ GateUnavailable
    \/ GatePassed \/ QueryAttempt \/ QueryReturned \/ QueryRaised
    \/ FlashcardsGatePassed \/ FlashcardsQuery \/ FlashcardsQueryDone
    \/ FlashcardsBuild

SpecRoute == InitRoute /\ [][NextRoute]_vars

----------------------------------------------------------------------------
(* A direct call of _deduplicate_vectors on an arbitrary batch *)

MaxBatch == 3           \* records in a batch handed to _deduplicate_vectors

(* The content_hash a record's metadata can hold: a digest, "" or none *)
Hashes == {Fingerprint("a"), Fingerprint("b"), <<>>, MissingHash}

(* The i-th record of a batch, its content_hash being h *)
BatchRecord(i, h) ==
    VectorData([id |-> i, text |-> "t", content_hash |-> h, chunk_index |-> i - 1,
                start_pos |-> i - 1, end_pos |-> i],
               "github", GetEmbedding("t", TRUE))

DedupInputs ==
    UNION {{[i \in 1..n |-> BatchRecord(i, hs[i])] : hs \in [1..n -> Hashes]} :
           n \in 0..MaxBatch}

(* _deduplicate_vectors(vectors), lines 348-359, from call to return *)
Deduplicate ==
    /\ fn = "_deduplicate_vectors"
    /\ status = "running"
    /\ dedupOut' = DeduplicateVectors(dedupIn)
    /\ status' = "returned"
    /\ UNCHANGED <<entry, fn, max_retries, retry_delay, attempt, ret, err,
                   batch, trace, index, faults, runVars, calls, routeVars,
                   dedupIn, chunkArgs, chunkOut, ops, runNo>>

InitDedup ==
    /\ entry = "_deduplicate_vectors"
    /\ fn = entry
    /\ max_retries = 0 /\ retry_delay = 0 /\ attempt = 0
    /\ status = "running"
    /\ ret = "-"
    /\ err = NoError
    /\ batch = <<>>
    /\ trace = <<>>
    /\ index = <<>>
    /\ faults = 0
    /\ RunIdle
    /\ calls = <<>>
    /\ RouteIdle
    /\ dedupIn \in DedupInputs
    /\ dedupOut = <<>>
    /\ ChunkIdle
    /\ ops = <<>>
    /\ runNo = 0

NextDedup == Deduplicate

SpecDedup == InitDedup /\ [][NextDedup]_vars

----------------------------------------------------------------------------
(* chunk_text(text, max_tokens, overlap) of server/utils/enhanced_chunker, *)
(* called directly.  A text is a sequence of sentences, a sentence a       *)
(* non-empty sequence of one-letter words; written out, words are joined   *)
(* by one space and every sentence ends with a full stop.  The empty       *)
(* sequence stands for an empty or whitespace-only text.                   *)

MaxSentences == 3       \* sentences of a text handed to chunk_text
MaxTokensArg == 3       \* largest max_tokens argument explored
MaxOverlapArg == 1      \* largest overlap argument explored

Sentences == {<<"a">>, <<"a", "b">>}

Texts == UNION {[1..n -> Sentences] : n \in 0..MaxSentences}

(* The words of the first k sentences *)
RECURSIVE WordsUpTo(_, _)
WordsUpTo(text, k) ==
    IF k = 0 THEN <<>> ELSE WordsUpTo(text, k - 1) \o text[k]

(* The number of the word that ends sentence k *)
SentenceEnd(text, k) == Len(WordsUpTo(text, k))

(* The character offset of word g: two characters per earlier word (the    *)
(* word and a space) and one more per full stop before it                  *)
CharOffset(text, g) ==
    2 * (g - 1) + Cardinality({k \in 1..Len(text) : SentenceEnd(text, k) < g})

(* The last sentence of the chunk that starts at word s with sentence j:   *)
(* sentences are added while the chunk stays within maxTok words; sentence *)
(* j is taken even if it alone exceeds maxTok                              *)
LastSentence(text, j, s, maxTok) ==
    CHOOSE k \in j..Len(text) :
        /\ k = j \/ SentenceEnd(text, k) - s + 1 <= maxTok
        /\ k = Len(text) \/ SentenceEnd(text, k + 1) - s + 1 > maxTok

(* The chunk of words s..e *)
MakeChunk(text, s, e, idx, firstId) ==
    [id |-> firstId + idx,
     text |-> SubSeq(WordsUpTo(text, Len(text)), s, e),
     content_hash |-> Fingerprint(SubSeq(WordsUpTo(text, Len(text)), s, e)),
     chunk_index |-> idx,
     start_pos |-> CharOffset(text, s),
     end_pos |-> CharOffset(text, e) + 2]

(* The word the chunk after one ending at word e starts with: overlap      *)
(* words before the end of that chunk                                      *)
OverlapStart(e, overlap) == IF e - overlap + 1 > 1 THEN e - overlap + 1 ELSE 1

RECURSIVE ChunkFrom(_, _, _, _, _, _, _)
ChunkFrom(text, j, s, idx, maxTok, overlap, firstId) ==
    IF j > Len(text) THEN <<>>
    ELSE LET k == LastSentence(text, j, s, maxTok)
             e == SentenceEnd(text, k)
         IN <<MakeChunk(text, s, e, idx, firstId)>>
            \o ChunkFrom(text, k + 1, OverlapStart(e, overlap), idx + 1,
                         maxTok, overlap, firstId)

ChunkWords(text, maxTok, overlap, firstId) ==
    ChunkFrom(text, 1, 1, 0, maxTok, overlap, firstId)

(* chunk_text from call to return *)
ChunkCall ==
    /\ fn = "chunk_text"
    /\ status = "running"
    /\ chunkOut' = ChunkWords(chunkArgs.text, chunkArgs.max_tokens,
                              chunkArgs.overlap, 1)
    /\ status' = "returned"
    /\ UNCHANGED <<entry, fn, max_retries, retry_delay, attempt, ret, err,
                   batch, trace, index, faults, runVars, calls, routeVars,
                   dedupIn, dedupOut, chunkArgs, ops, runNo>>

InitChunk ==
    /\ entry = "chunk_text"
    /\ fn = entry
    /\ max_retries = 0 /\ retry_delay = 0 /\ attempt = 0
    /\ status = "running"
    /\ ret = "-"
    /\ err = NoError
    /\ batch = <<>>
    /\ trace = <<>>
    /\ index = <<>>
    /\ faults = 0
    /\ RunIdle
    /\ calls = <<>>
    /\ RouteIdle
    /\ DedupIdle
    /\ chunkArgs \in [text : Texts, max_tokens : 1..MaxTokensArg,
                       overlap : 0..MaxOverlapArg]
    /\ chunkOut = <<>>
    /\ ops = <<>>
    /\ runNo = 0

(* The chunker called directly or by a run of the orchestrator *)
NextChunkRun == ChunkCall \/ NextRun

SpecChunkRun == (InitChunk \/ InitRun) /\ [][NextChunkRun]_vars

(* The deduplicator called directly or by a run of the orchestrator *)
NextDedupRun == Deduplicate \/ NextRun

SpecDedupRun == (InitDedup \/ InitRun) /\ [][NextDedupRun]_vars

----------------------------------------------------------------------------
(* Reading the trace of a gateway call *)

Calls == {i \in DOMAIN trace : trace[i].ev = "call"}
OkCalls == {i \in Calls : trace[i].ok}
FailedCalls == {i \in Calls : ~trace[i].ok}
Sleeps == {i \in DOMAIN trace : trace[i].ev = "sleep"}
Finished == status \in {"returned", "raised"}

(* range(n) has n elements for n >= 0 and none for n < 0 *)
Iterations(n) == IF n > 0 THEN n ELSE 0

(* The next store call after position i, 0 when there is none *)
NextCall(i) ==
    IF \E j \in Calls : j > i
    THEN CHOOSE j \in Calls : j > i /\ \A k \in Calls : k > i => j <= k
    ELSE 0

RECURSIVE SleepSum(_, _)
(* Total time slept at trace positions lo..hi *)
SleepSum(lo, hi) ==
    IF lo > hi THEN 0
    ELSE (IF trace[lo].ev = "sleep" THEN trace[lo].n ELSE 0) + SleepSum(lo + 1, hi)

----------------------------------------------------------------------------
(* C1: upsert_chunks calls the store at most max_retries times; a failed   *)
(* attempt a that is not the last one is followed, whatever the error, by  *)
(* a sleep of exactly retry_delay * 2^a and then by attempt a + 1; it      *)
(* sleeps nowhere else.                                                    *)
C1_UpsertRetryBackoff ==
    fn = "upsert_chunks" =>
        /\ Cardinality(Calls) <= Iterations(max_retries)
        /\ \A i \in FailedCalls :
              trace[i].n < max_retries - 1 =>
                /\ i + 1 \in DOMAIN trace
                /\ trace[i + 1].ev = "sleep"
                /\ trace[i + 1].n = retry_delay * (2 ^ trace[i].n)
                /\ IF i + 2 \in DOMAIN trace
                   THEN trace[i + 2].ev = "call" /\ trace[i + 2].n = trace[i].n + 1
                   ELSE status = "running" /\ attempt = trace[i].n + 1
        /\ \A i \in Sleeps :
              i - 1 \in FailedCalls /\ trace[i - 1].n < max_retries - 1

(* With the defaults: two failures, slept 1 then 2, third call under way *)
C1_Witness ==
    /\ fn = "upsert_chunks"
    /\ max_retries = DefaultMaxRetries /\ retry_delay = DefaultRetryDelay
    /\ Len(trace) = 4
    /\ trace[1].msg = Msg400 /\ trace[2] = Sleep(1)
    /\ trace[3].msg = Msg429 /\ trace[4] = Sleep(2)
    /\ status = "running" /\ attempt = 2

(* C2: after k < max_retries failed store calls upsert_chunks has raised   *)
(* nothing, and when call k+1 succeeds it returns True after exactly k+1   *)
(* store calls with no error for the caller.                               *)
C2_UpsertSucceedsAfterFailures ==
    fn = "upsert_chunks" =>
        /\ Cardinality(FailedCalls) < max_retries =>
              status # "raised" /\ err = NoError
        /\ \A i \in OkCalls :
              /\ i = Len(trace)
              /\ \A j \in Calls : j < i => ~trace[j].ok
              /\ Cardinality(Calls) = Cardinality(FailedCalls) + 1
              /\ Cardinality(Calls) = trace[i].n + 1
              /\ status = "returned" /\ ret = "True" /\ err = NoError

(* Defaults, the store fails twice and then succeeds *)
C2_Witness ==
    /\ fn = "upsert_chunks"
    /\ max_retries = DefaultMaxRetries /\ retry_delay = DefaultRetryDelay
    /\ Cardinality(FailedCalls) = 2 /\ Cardinality(Calls) = 3
    /\ status = "returned" /\ ret = "True" /\ err = NoError

(* C3: when every store call of an upsert_chunks call has failed, it made  *)
(* exactly max_retries store calls, raised the error of the last one, and  *)
(* returned no success value.                                              *)
C3_UpsertExhausted ==
    (fn = "upsert_chunks" /\ Finished /\ OkCalls = {}) =>
        /\ Cardinality(Calls) = Iterations(max_retries)
        /\ ret # "True"
        /\ Calls # {} =>
              /\ status = "raised"
              /\ trace[Len(trace)].ev = "call"
              /\ err = trace[Len(trace)].msg
              /\ err \in ErrorMsgs

C3_Witness ==
    /\ fn = "upsert_chunks" /\ max_retries = 3
    /\ status = "raised" /\ Cardinality(FailedCalls) = 3
    /\ trace[1].msg = Msg500 /\ trace[3].msg = Msg500 /\ err = Msg400

(* C4: in query_chunks an error that is neither rate-limit nor server      *)
(* error is raised at the attempt where it occurs: it is the last event of *)
(* the call (no store call, no sleep after it); when the first store call  *)
(* fails that way the call made one store call and slept zero times.       *)
C4_QueryNonRetryable ==
    fn = "query_chunks" =>
        \A i \in FailedCalls :
            (~IsRateLimit(trace[i].msg) /\ ~IsServerError(trace[i].msg)) =>
                /\ i = Len(trace)
                /\ status = "raised"
                /\ err = trace[i].msg
                /\ trace[i].n = 0 => (Cardinality(Calls) = 1 /\ Sleeps = {})

C4_Witness ==
    /\ fn = "query_chunks" /\ max_retries = DefaultMaxRetries
    /\ trace = <<CallFail(0, Msg400)>>
    /\ status = "raised" /\ err = Msg400

(* C5 as stated: in query_chunks the time waited between failed attempt a  *)
(* and the next store call is 2 * retry_delay * 2^a after a rate-limit     *)
(* error and retry_delay * 2^a after a server error.                       *)
C5_Original ==
    fn = "query_chunks" =>
        \A i \in FailedCalls :
            NextCall(i) # 0 =>
                SleepSum(i + 1, NextCall(i) - 1) =
                    IF IsRateLimit(trace[i].msg)
                    THEN 2 * retry_delay * (2 ^ trace[i].n)
                    ELSE retry_delay * (2 ^ trace[i].n)

(* C5 amended: between failed attempt a and the next store call there are  *)
(* exactly two sleeps: the handler's, 2 * retry_delay * 2^a after a        *)
(* rate-limit error and retry_delay * 2^a after a server error, and then   *)
(* the next attempt's own retry_delay * 2^(a+1); the time between the      *)
(* failure and the next store call is 4 resp. 3 times retry_delay * 2^a.   *)
C5_QueryWaitTwoSleeps ==
    fn = "query_chunks" =>
        \A i \in FailedCalls :
            NextCall(i) # 0 =>
                /\ NextCall(i) = i + 3
                /\ trace[i + 3].n = trace[i].n + 1
                /\ trace[i + 1].ev = "sleep" /\ trace[i + 2].ev = "sleep"
                /\ (IsRateLimit(trace[i].msg) \/ IsServerError(trace[i].msg))
                /\ trace[i + 1].n =
                      IF IsRateLimit(trace[i].msg)
                      THEN 2 * retry_delay * (2 ^ trace[i].n)
                      ELSE retry_delay * (2 ^ trace[i].n)
                /\ trace[i + 2].n = retry_delay * (2 ^ (trace[i].n + 1))
                /\ SleepSum(i + 1, NextCall(i) - 1) =
                      IF IsRateLimit(trace[i].msg)
                      THEN 4 * retry_delay * (2 ^ trace[i].n)
                      ELSE 3 * retry_delay * (2 ^ trace[i].n)

(* A rate-limit failure at attempt 0 and a server error at attempt 1, each *)
(* followed by another store call                                          *)
C5_Witness ==
    /\ fn = "query_chunks" /\ retry_delay = DefaultRetryDelay
    /\ Cardinality(Calls) = 3
    /\ trace[1] = CallFail(0, Msg429)
    /\ trace[4] = CallFail(1, Msg500)

(* C6: query_chunks makes its first store call with no sleep before it,    *)
(* and the store call of every attempt a >= 1 is immediately preceded by a *)
(* sleep of retry_delay * 2^a.                                             *)
C6_QueryPreAttemptSleep ==
    fn = "query_chunks" =>
        \A i \in Calls :
            IF trace[i].n = 0
            THEN i = 1
            ELSE /\ i > 1
                 /\ trace[i - 1].ev = "sleep"
                 /\ trace[i - 1].n = retry_delay * (2 ^ trace[i].n)

C6_Witness ==
    /\ fn = "query_chunks" /\ retry_delay = 2
    /\ \E i \in Calls : trace[i].n = 2 /\ trace[i - 1] = Sleep(8)
    /\ trace[1].ev = "call"

(* C7: on retryable errors query_chunks makes at most max_retries store    *)
(* calls, returns the result of the first successful call, does not raise  *)
(* before max_retries attempts have failed, and then raises the last error *)
C7_QueryAttemptBound ==
    fn = "query_chunks" =>
        /\ Cardinality(Calls) <= Iterations(max_retries)
        /\ \A i \in OkCalls :
              /\ i = Len(trace)
              /\ \A j \in Calls : j < i => ~trace[j].ok
              /\ status = "returned" /\ ret = "results" /\ err = NoError
        /\ (/\ Finished
            /\ Calls # {}
            /\ \A i \in Calls :
                  ~trace[i].ok /\ (IsRateLimit(trace[i].msg) \/ IsServerError(trace[i].msg)))
              => /\ Cardinality(Calls) = max_retries
                 /\ status = "raised"
                 /\ \E i \in Calls :
                       (\A j \in Calls : j <= i) /\ err = trace[i].msg

(* Three retryable failures with the defaults: the last error is raised *)
C7_Witness ==
    /\ fn = "query_chunks" /\ max_retries = DefaultMaxRetries
    /\ Cardinality(FailedCalls) = 3
    /\ status = "raised" /\ err = Msg500
    /\ trace[1].msg = Msg429

(* A connection or timeout error (the words routes/search.py line 76 looks *)
(* for) or a 5xx status                                                    *)
IsTransientError(msg) ==
    \/ Contains(Lower(msg), <<"connection">>)
    \/ Contains(Lower(msg), <<"timeout">>)
    \/ (msg # <<>> /\ msg[1] \in {"500", "502", "503", "504"})

(* C8 as stated: a store call (upsert or query) failing with a connection, *)
(* timeout or 5xx error is retried up to the attempt limit: the gateway    *)
(* raises such an error only when max_retries attempts have been made.     *)
C8_TransientRetried ==
    (status = "raised" /\ IsTransientError(err)) =>
        Cardinality(Calls) = max_retries

(* C9 as stated: a chunk whose embedding came back empty is not sent to    *)
(* the store as a normal record: no batch given to the store's upsert      *)
(* holds a record with empty values (the records carry no warning tag).    *)
C9_EmptyVectorNotSent ==
    (fn = "upsert_chunks" /\ Calls # {}) =>
        \A i \in DOMAIN batch : batch[i].values # <<>>

(* C10 as stated: when a github item and a slack item of one               *)
(* integrate-all run have identical content, only the github record is     *)
(* upserted: the store never holds a slack record whose content_hash a     *)
(* github record of the same run carries.                                  *)
C10_GithubRecordOnly ==
    \A i, j \in DOMAIN index :
        (/\ index[i].metadata.source_name = "github"
         /\ index[j].metadata.source_name = "slack")
            => index[i].metadata.content_hash # index[j].metadata.content_hash

----------------------------------------------------------------------------
(* Reading the results of a run *)

NumResults == Len(results.integrations)
LastResult == results.integrations[NumResults]
NewResult == results'.integrations[Len(results'.integrations)]
ResultAdded == Len(results'.integrations) = NumResults + 1

(* The steps in which an integrate_x call ends *)
SourceCompletes == runPc = "items" /\ itemPos > Len(data)
UpsertFails == runPc = "upserting" /\ status = "raised"
UpsertSucceeds == runPc = "upserting" /\ status = "returned"

(* C11 as stated: chunks_processed grows by an item's pre-dedup chunk      *)
(* count whether or not its upsert succeeded, chunks_stored grows only     *)
(* for items whose upsert succeeded, and the returned result has           *)
(* duplicates_removed = chunks_processed - chunks_stored and               *)
(* 0 <= chunks_stored <= chunks_processed.                                 *)
C11_CountsWhateverTheOutcome ==
    [][ /\ UpsertSucceeds =>
              /\ total_chunks' = total_chunks + pending
              /\ stored_chunks' = stored_chunks + Len(batch)
        /\ UpsertFails =>
              /\ ResultAdded
              /\ NewResult.chunks_processed = total_chunks + pending
              /\ NewResult.chunks_stored = stored_chunks
        /\ SourceCompletes =>
              /\ ResultAdded
              /\ NewResult.chunks_processed = total_chunks
              /\ NewResult.chunks_stored = stored_chunks
              /\ NewResult.duplicates_removed =
                     NewResult.chunks_processed - NewResult.chunks_stored
              /\ 0 <= NewResult.chunks_stored
              /\ NewResult.chunks_stored <= NewResult.chunks_processed
      ]_vars

(* C12 as stated: an error local to one item (here a malformed item) is    *)
(* caught per item and does not fail the source run: no source result is   *)
(* the failure that item's error caused.                                   *)
C12_ItemErrorAbsorbed ==
    \A k \in DOMAIN results.integrations :
        results.integrations[k].success
            \/ ~Contains(results.integrations[k].error, MsgKeyError)

(* C13: when an item's upsert has exhausted its retries the source run     *)
(* ends at once with success = false and the error, without chunking,      *)
(* embedding or upserting anything more, and the store keeps every record  *)
(* it holds (records are only ever added).                                 *)
C13_ExhaustedUpsertStopsRun ==
    /\ [][ UpsertFails =>
             /\ Cardinality(FailedCalls) = DefaultMaxRetries
             /\ results'.integrations = Append(results.integrations,
                    [success |-> FALSE,
                     error |-> <<SourceTitle(Sources[srcPos]),
                                 "integration failed:">> \o err,
                     chunks_processed |-> 0, chunks_stored |-> 0])
             /\ srcPos' = srcPos + 1 /\ runPc' = "dispatch" /\ data' = <<>>
             /\ nextId' = nextId /\ embedLeft' = embedLeft
             /\ fn' = "none" /\ index' = index
         ]_vars
    /\ [][ /\ Len(index') >= Len(index)
           /\ SubSeq(index', 1, Len(index)) = index ]_vars

(* The second item's upsert failed; the first item's record is in the store *)
C13_Witness ==
    /\ runPc = "dispatch" /\ srcPos = 2
    /\ NumResults = 1
    /\ ~LastResult.success
    /\ LastResult.error = <<"GitHub", "integration failed:">> \o Msg503
    /\ Len(index) = 1 /\ index[1].metadata.source_name = "github"

----------------------------------------------------------------------------
(* The source a result belongs to: a completed run names it, a failed one  *)
(* carries its title in the error text                                     *)
ResultSource(r) ==
    IF r.success THEN r.integration
    ELSE CHOOSE s \in {"github", "notion", "slack"} :
             Contains(r.error, <<SourceTitle(s)>>)

ResultSources ==
    [k \in DOMAIN results.integrations |-> ResultSource(results.integrations[k])]

ConnectorsCalled == [k \in DOMAIN calls |-> calls[k].arg]

IsConfigured(s) == configs[s]

(* The configured ones among the first k sources, in their order *)
ConfiguredBefore(k) == SelectSeq(SubSeq(Sources, 1, k), IsConfigured)

InsideSource == runPc \in {"items", "upserting"}

(* C14: in integrate_all_sources, whatever the outcomes so far, the        *)
(* integrations list holds exactly one result for every configured source  *)
(* already passed, in the order github, notion, slack, and every one of    *)
(* them had its connector called, so no failure stops the sources after    *)
(* it; a source starts from a fresh frame (no counters, items or gateway   *)
(* call left over from the one before)                                     *)
C14_EverySourceOneResult ==
    /\ ResultSources = ConfiguredBefore(srcPos - 1)
    /\ ConnectorsCalled = ConfiguredBefore(IF InsideSource THEN srcPos ELSE srcPos - 1)
    /\ runPc = "done" => srcPos = Len(Sources) + 1
    /\ runPc \in {"dispatch", "done"} =>
          /\ GatewayIdle
          /\ data = <<>> /\ itemPos = 0 /\ pending = 0
          /\ total_chunks = 0 /\ stored_chunks = 0

C14_Witness ==
    /\ runPc = "done"
    /\ NumResults = 3
    /\ ~results.integrations[1].success
    /\ Contains(results.integrations[1].error, <<"integration failed:">>)
    /\ ~results.integrations[2].success
    /\ results.integrations[3].success
    /\ results.integrations[3].chunks_stored > 0

----------------------------------------------------------------------------
DedupReturned == fn = "_deduplicate_vectors" /\ status = "returned"

HashAt(vectors, i) == vectors[i].metadata.content_hash

(* Position i holds the first record of the batch carrying its hash *)
IsFirst(vectors, i) == \A j \in 1..(i - 1) : HashAt(vectors, j) # HashAt(vectors, i)

(* The records of vectors at the positions in I, in their original order *)
RecordsAt(vectors, I) ==
    LET pos == [k \in 1..Cardinality(I) |->
                   CHOOSE i \in I : Cardinality({j \in I : j < i}) = k - 1]
    IN [k \in 1..Cardinality(I) |-> vectors[pos[k]]]

NoSharedHash(vectors) ==
    \A i, j \in DOMAIN vectors :
        HashAt(vectors, i) = HashAt(vectors, j) => i = j

(* C15 as stated: the output is the input restricted, in order, to the     *)
(* first record of every content_hash a record carries (the empty one      *)
(* included), and no two output records share a content_hash               *)
C15_Original ==
    DedupReturned =>
        /\ dedupOut = RecordsAt(dedupIn,
                         {i \in DOMAIN dedupIn :
                             /\ HashAt(dedupIn, i) # MissingHash
                             /\ IsFirst(dedupIn, i)})
        /\ NoSharedHash(dedupOut)

(* C15: the output is the input restricted, in order, to the first record  *)
(* of every non-empty content_hash; later records with the same hash and   *)
(* records whose content_hash is missing or empty are dropped; no two      *)
(* output records share a content_hash                                     *)
C15_FirstOfEachHashKept ==
    DedupReturned =>
        /\ dedupOut = RecordsAt(dedupIn,
                         {i \in DOMAIN dedupIn :
                             /\ HashAt(dedupIn, i) \notin {<<>>, MissingHash}
                             /\ IsFirst(dedupIn, i)})
        /\ NoSharedHash(dedupOut)

C15_Witness ==
    /\ DedupReturned
    /\ Len(dedupIn) = 3
    /\ HashAt(dedupIn, 1) = Fingerprint("a")
    /\ HashAt(dedupIn, 2) = <<>>
    /\ HashAt(dedupIn, 3) = Fingerprint("a")
    /\ dedupOut = <<dedupIn[1]>>

(* The batch integrate_x builds for an item, whatever the embeddings are *)
ItemVectors(item) == BuildVectors(ChunkText(item.content, 1), "github", {})

(* The sum over the first k items of len(vectors) - len(unique_vectors) *)
RECURSIVE DroppedUpTo(_, _)
DroppedUpTo(items, k) ==
    IF k = 0 THEN 0
    ELSE DroppedUpTo(items, k - 1)
         + Len(ItemVectors(items[k]))
         - Len(DeduplicateVectors(ItemVectors(items[k])))

(* C16: _deduplicate_vectors applied to its own output returns it, its     *)
(* output is never longer than its input (for a direct call and for the    *)
(* batch a run hands to upsert_chunks), and the duplicates_removed of a    *)
(* completed source run is the sum over its items of the records the       *)
(* deduplicator dropped                                                    *)
C16_IdempotentAndCounted ==
    /\ [](DedupReturned =>
            /\ DeduplicateVectors(dedupOut) = dedupOut
            /\ Len(dedupOut) <= Len(dedupIn))
    /\ [](runPc = "upserting" =>
            /\ DeduplicateVectors(batch) = batch
            /\ Len(batch) <= pending)
    /\ [][SourceCompletes =>
            /\ ResultAdded
            /\ NewResult.success
            /\ NewResult.duplicates_removed = DroppedUpTo(data, Len(data))]_vars

C16_Witness ==
    /\ NumResults > 0
    /\ LastResult.success
    /\ LastResult.documents_processed = 2
    /\ LastResult.chunks_processed = 3
    /\ LastResult.duplicates_removed = 1

----------------------------------------------------------------------------
(* The step in which the connector of the current source returns nothing *)
ConnectorGaveNothing ==
    /\ Dispatching
    /\ calls' = Append(calls, ConnectorCall(Sources[srcPos], "empty"))

(* C17: when the connector returns an empty or null result the source run  *)
(* ends at once with success=false, the error text naming the source,      *)
(* chunks_processed=0 and chunks_stored=0; the step makes no chunker call  *)
(* (no id is drawn), no embedding call and no store call, and no           *)
(* connector is ever called a second time                                  *)
C17_NoDataFailsWithoutWork ==
    /\ [][ConnectorGaveNothing =>
            /\ ResultAdded
            /\ NewResult = [success |-> FALSE,
                            error |-> <<"No data found or",
                                        SourceTitle(Sources[srcPos]),
                                        "token not configured">>,
                            chunks_processed |-> 0, chunks_stored |-> 0]
            /\ results'.sources_integrated = results.sources_integrated
            /\ srcPos' = srcPos + 1
            /\ runPc' = "dispatch"
            /\ nextId' = nextId
            /\ embedLeft' = embedLeft
            /\ fn' = "none" /\ trace' = <<>>
            /\ index' = index /\ faults' = faults]_vars
    /\ [](\A i, j \in DOMAIN calls : calls[i].arg = calls[j].arg => i = j)

C17_Witness ==
    /\ runPc = "dispatch"
    /\ NumResults = 2
    /\ calls[Len(calls)] = ConnectorCall("notion", "empty")
    /\ LastResult.error = <<"No data found or", "Notion", "token not configured">>
    /\ ~LastResult.success
    /\ LastResult.chunks_processed = 0
    /\ LastResult.chunks_stored = 0
    /\ Len(index) = 2

Unconfigured == Dispatching /\ ~configs[Sources[srcPos]]

(* C18: in integrate_all_sources a source without configuration is passed  *)
(* over: the step changes neither the results (integrations,               *)
(* sources_integrated, success, totals) nor the store and calls no         *)
(* connector; no connector call, result or sources_integrated entry ever   *)
(* belongs to an unconfigured source                                       *)
C18_UnconfiguredSkipped ==
    /\ [][Unconfigured =>
            /\ results' = results
            /\ calls' = calls
            /\ index' = index
            /\ fn' = "none"
            /\ srcPos' = srcPos + 1
            /\ runPc' = "dispatch"]_vars
    /\ [](/\ \A k \in DOMAIN calls : configs[calls[k].arg]
          /\ \A k \in DOMAIN results.integrations :
                configs[ResultSource(results.integrations[k])]
          /\ \A k \in DOMAIN results.sources_integrated :
                configs[results.sources_integrated[k]]
          /\ results.success)

C18_Witness ==
    /\ runPc = "done"
    /\ configs = [github |-> TRUE, notion |-> FALSE, slack |-> TRUE]
    /\ ConnectorsCalled = <<"github", "slack">>
    /\ results.sources_integrated = <<"github", "slack">>
    /\ NumResults = 2
    /\ results.total_chunks_stored = 2

----------------------------------------------------------------------------
(* C19: check_index_health returns after exactly one store call, the probe *)
(* query with a vector of 768 zeros, top_k=1 and metadata excluded; it     *)
(* returns True iff that call completed and False when it raised, never    *)
(* raises itself, never sleeps and never calls the store a second time     *)
C19_HealthIsOneProbe ==
    fn = "check_index_health" =>
        /\ status \in {"running", "returned"}
        /\ status = "running" => trace = <<>>
        /\ status = "returned" =>
              /\ Len(trace) = 1
              /\ Calls = {1}
              /\ Sleeps = {}
              /\ Len(probe.vector) = 768
              /\ \A i \in DOMAIN probe.vector : probe.vector[i] = 0
              /\ probe.top_k = 1
              /\ ~probe.include_metadata
              /\ ret = (IF trace[1].ok THEN "True" ELSE "False")
              /\ index = <<>>

C19_Witness ==
    /\ entry = "check_index_health"
    /\ fn = "check_index_health"
    /\ status = "returned"
    /\ ret = "False"
    /\ trace = <<CallFail(0, Msg503)>>

----------------------------------------------------------------------------
CallsOf(op) == {k \in DOMAIN calls : calls[k].op = op}

ProbeSaidFalse == routePc = "health" /\ status = "returned" /\ ret = "False"

(* C20: in the search, ask and generate-flashcards handlers the health     *)
(* probe is called, and has returned, before the first embedding call and  *)
(* the first query_chunks call; when the probe returns False the handler   *)
(* responds 503 at once, makes no further call, and the request has made   *)
(* no embedding call and no query_chunks call                              *)
C20_HealthGateFirst ==
    /\ [](/\ \A k \in CallsOf("get_embedding") \cup CallsOf("query_chunks") :
                /\ 1 \in CallsOf("check_index_health")
                /\ k > 1
                /\ probe = ProbeRequest
          /\ routePc = "health" => calls = <<RouteCall("check_index_health", "-")>>)
    /\ [][ProbeSaidFalse =>
            /\ response'.status = 503
            /\ routePc' = "done"
            /\ calls' = calls
            /\ fn' = "none"
            /\ faults' = faults]_vars
    /\ [][routePc = "done" => UNCHANGED vars]_vars

C20_Witness ==
    /\ entry = "generate_flashcards"
    /\ routePc = "done"
    /\ response = UnavailableResponse
    /\ calls = <<RouteCall("check_index_health", "-")>>
    /\ probe = ProbeRequest

----------------------------------------------------------------------------
(* A failed result carries no duplicates_removed field *)
DuplicatesOf(r) == IF r.success THEN r.duplicates_removed ELSE 0

RECURSIVE SumProcessed(_, _)
SumProcessed(rs, k) ==
    IF k = 0 THEN 0 ELSE SumProcessed(rs, k - 1) + rs[k].chunks_processed

RECURSIVE SumStored(_, _)
SumStored(rs, k) ==
    IF k = 0 THEN 0 ELSE SumStored(rs, k - 1) + rs[k].chunks_stored

RECURSIVE SumDuplicates(_, _)
SumDuplicates(rs, k) ==
    IF k = 0 THEN 0 ELSE SumDuplicates(rs, k - 1) + DuplicatesOf(rs[k])

(* C21: at every point of integrate_all_sources, and so in the dict it     *)
(* returns, each of the three totals is the sum of that field over the     *)
(* results collected in integrations (a failed result has 0 chunks and no  *)
(* duplicates_removed), and total_duplicates_removed is                    *)
(* total_chunks_processed - total_chunks_stored                            *)
C21_TotalsAreSums ==
    /\ results.total_chunks_processed = SumProcessed(results.integrations, NumResults)
    /\ results.total_chunks_stored = SumStored(results.integrations, NumResults)
    /\ results.total_duplicates_removed = SumDuplicates(results.integrations, NumResults)
    /\ results.total_duplicates_removed =
          results.total_chunks_processed - results.total_chunks_stored

C21_Witness ==
    /\ runPc = "done"
    /\ NumResults = 3
    /\ results.integrations[1].success
    /\ ~results.integrations[2].success
    /\ results.integrations[3].success
    /\ results.total_chunks_processed = 3
    /\ results.total_chunks_stored = 2
    /\ results.total_duplicates_removed = 1

----------------------------------------------------------------------------
(* The message names a 5xx status of the store *)
IsFiveHundreds(msg) ==
    \/ \E code \in {"500", "502", "503", "504"} : Contains(msg, <<code>>)
    \/ Contains(Lower(msg), <<"internal", "server", "error">>)

QueryFailedInRoute == routePc = "query" /\ TakesParam /\ status = "raised"

(* C22: when query_chunks raises in a search or ask request (after the     *)
(* health gate) the response status is 429 for a rate-limit error, else    *)
(* 503 for a 5xx server error or a connection/timeout error, else 500,     *)
(* and the body carries both error and details                             *)
C22_ErrorStatusClasses ==
    [][QueryFailedInRoute =>
        /\ response'.status =
              (IF IsRateLimit(err) THEN 429
               ELSE IF IsFiveHundreds(err) \/ IsConnectionError(err) THEN 503
               ELSE 500)
        /\ response'.error
        /\ response'.details]_vars

----------------------------------------------------------------------------
ChunkReturned == fn = "chunk_text" /\ status = "returned"

(* chunk_index is 0..n-1 in order and every chunk has start_pos < end_pos *)
WellNumbered(chunks) ==
    \A i \in DOMAIN chunks :
        /\ chunks[i].chunk_index = i - 1
        /\ chunks[i].start_pos < chunks[i].end_pos

(* The chunks of the item whose batch upsert_chunks is working on *)
CurrentChunks == ChunkText(data[itemPos].content, nextId - pending)

(* C23: for a non-empty text chunk_text returns at least one chunk, the    *)
(* chunk_index values are 0..n-1 in order and every chunk has              *)
(* start_pos < end_pos; every record the orchestrator hands to             *)
(* upsert_chunks carries in its metadata the chunk_index, start_pos and    *)
(* end_pos (and text and content_hash) of the chunk with its id            *)
C23_ChunksNumberedAndCopied ==
    /\ [](ChunkReturned =>
            /\ chunkArgs.text # <<>> => chunkOut # <<>>
            /\ WellNumbered(chunkOut))
    /\ [](runPc = "upserting" =>
            /\ CurrentChunks # <<>>
            /\ WellNumbered(CurrentChunks)
            /\ \A k \in DOMAIN batch :
                  \E i \in DOMAIN CurrentChunks :
                      /\ batch[k].id = CurrentChunks[i].id
                      /\ batch[k].metadata.chunk_index = CurrentChunks[i].chunk_index
                      /\ batch[k].metadata.start_pos = CurrentChunks[i].start_pos
                      /\ batch[k].metadata.end_pos = CurrentChunks[i].end_pos
                      /\ batch[k].metadata.text = CurrentChunks[i].text
                      /\ batch[k].metadata.content_hash = CurrentChunks[i].content_hash)

C23_Witness ==
    /\ runPc = "upserting"
    /\ Len(batch) = 2
    /\ batch[2].metadata.chunk_index = 1
    /\ batch[2].metadata.start_pos = 1
    /\ batch[2].metadata.end_pos = 2

----------------------------------------------------------------------------
(* The place of a call in the order chunk, embed, deduplicate, upsert *)
StageOf(op) ==
    CASE op = "chunk_text" -> 1
      [] op = "get_embedding" -> 2
      [] op = "_deduplicate_vectors" -> 3
      [] op = "upsert_chunks" -> 4

OpsOf(op) == {k \in DOMAIN ops : ops[k].op = op}

(* The content of the item the calls in ops were made for *)
OpsContent ==
    IF runPc = "upserting" THEN data[itemPos].content
    ELSE data[itemPos - 1].content

NextItemStarts == ops' # ops /\ ops' # <<>>

SourceRunEnds == srcPos' # srcPos /\ configs[Sources[srcPos]]

----------------------------------------------------------------------------
(* The distinct texts among the chunks of a content *)
DistinctTexts(content) == {content[i] : i \in DOMAIN content}

StoredWithHash(h) == {k \in DOMAIN index : index[k].metadata.content_hash = h}

(* C25: whatever the store already holds, an item's upsert is requested    *)
(* with one record for every distinct chunk text of that item alone; every *)
(* record written has an id no stored record has; so the store can hold    *)
(* the same content more than once                                         *)
C25_DedupPerItemOnly ==
    /\ [][(NextItemStarts /\ data[itemPos].content # <<>>) =>
            /\ ops'[Len(ops')] =
                  ItemOp("upsert_chunks",
                         Cardinality(DistinctTexts(data[itemPos].content)))
            /\ runPc' = "upserting"
            /\ {batch'[k].metadata.text : k \in DOMAIN batch'} =
                  DistinctTexts(data[itemPos].content)]_vars
    /\ [](\A i, j \in DOMAIN index : index[i].id = index[j].id => i = j)
    /\ [][index' # index => index' = index \o batch]_vars

C25_Witness ==
    /\ runNo = 2
    /\ runPc = "done"
    /\ NumResults = 1
    /\ LastResult.success
    /\ LastResult.documents_processed = 1
    /\ LastResult.chunks_stored = 1
    /\ LastResult.duplicates_removed = 0
    /\ Len(index) = 2
    /\ StoredWithHash(Fingerprint("a")) = {1, 2}
    /\ index[1].id # index[2].id
    /\ index[1].metadata.source_name = index[2].metadata.source_name

----------------------------------------------------------------------------
NoAttempts ==
    /\ entry \in {"upsert_chunks", "query_chunks"}
    /\ max_retries <= 0

----------------------------------------------------------------------------
(* Every attempt was made and failed, and the call raised *)
Exhausted ==
    /\ status = "raised"
    /\ max_retries >= 1
    /\ Cardinality(FailedCalls) = max_retries

OnlyServerErrors == \A i \in FailedCalls : Classify(trace[i].msg) = "server_error"

OnlyRetryableErrors == \A i \in FailedCalls : Classify(trace[i].msg) # "other"

TotalSleep == SleepSum(1, Len(trace))

(* C27: query_chunks that fails every attempt on retryable errors ends its *)
(* trace with the backoff sleep of the last failed attempt, and when all   *)
(* errors were server errors it has slept                                  *)
(* retry_delay * (2^(max_retries+1) - 3) in all; upsert_chunks that fails  *)
(* every attempt ends its trace with the failed call and has slept         *)
(* retry_delay * (2^(max_retries-1) - 1) in all                            *)
C27_TotalSleepOnExhaustion ==
    /\ (fn = "query_chunks" /\ Exhausted /\ OnlyRetryableErrors) =>
          /\ trace[Len(trace)].ev = "sleep"
          /\ trace[Len(trace)].n =
                (IF IsRateLimit(err) THEN 2 ELSE 1)
                * retry_delay * 2 ^ (max_retries - 1)
          /\ OnlyServerErrors =>
                TotalSleep = retry_delay * (2 ^ (max_retries + 1) - 3)
    /\ (entry = "upsert_chunks" /\ Exhausted) =>
          /\ trace[Len(trace)].ev = "call"
          /\ TotalSleep = retry_delay * (2 ^ (max_retries - 1) - 1)

C27_Witness ==
    /\ entry = "query_chunks"
    /\ max_retries = DefaultMaxRetries
    /\ retry_delay = DefaultRetryDelay
    /\ Exhausted
    /\ OnlyServerErrors
    /\ TotalSleep = 13

----------------------------------------------------------------------------
(* The positions of the records without content_hash or with an empty one *)
Unhashed(vectors) ==
    {i \in DOMAIN vectors : HashAt(vectors, i) \in {<<>>, MissingHash}}

(* C28: _deduplicate_vectors returns no record whose content_hash is       *)
(* missing or empty, so a batch of such records only comes back empty and  *)
(* each of them is among the records dropped; the orchestrator adds        *)
(* len(chunks) - len(unique_vectors) of every item to duplicates_removed,  *)
(* whatever the reason a record was dropped for                            *)
C28_UnhashedDropped ==
    /\ [](DedupReturned =>
            /\ Unhashed(dedupOut) = {}
            /\ Unhashed(dedupIn) = DOMAIN dedupIn => dedupOut = <<>>
            /\ Len(dedupIn) - Len(dedupOut) >= Cardinality(Unhashed(dedupIn)))
    /\ [](runPc = "upserting" => Unhashed(batch) = {})
    /\ [][UpsertSucceeds =>
            (total_chunks' - stored_chunks') - (total_chunks - stored_chunks)
                = pending - Len(batch)]_vars
    /\ [][SourceCompletes =>
            NewResult.duplicates_removed = total_chunks - stored_chunks]_vars

C28_Witness ==
    /\ DedupReturned
    /\ Len(dedupIn) = 1
    /\ HashAt(dedupIn, 1) = <<>>
    /\ dedupOut = <<>>

----------------------------------------------------------------------------
Succeeded(r) == r.success

(* The sources of the successful results, in the order of integrations *)
SucceededSources ==
    LET good == SelectSeq(results.integrations, Succeeded)
    IN [k \in DOMAIN good |-> good[k].integration]

IsSubsequenceOfSources(seq) ==
    \A i, j \in DOMAIN seq :
        i < j => \E a, b \in DOMAIN Sources :
                    a < b /\ Sources[a] = seq[i] /\ Sources[b] = seq[j]

(* C29: the results dict of integrate_all_sources has success=true at      *)
(* every point of the run and when it is returned, whatever the results of *)
(* the sources are; sources_integrated lists exactly the sources whose     *)
(* result has success=true, in the order github, notion, slack             *)
C29_SuccessDespiteFailures ==
    /\ results.success
    /\ results.sources_integrated = SucceededSources
    /\ IsSubsequenceOfSources(results.sources_integrated)

C29_Witness ==
    /\ runPc = "done"
    /\ NumResults = 3
    /\ \A k \in DOMAIN results.integrations : ~results.integrations[k].success
    /\ results.success
    /\ results.sources_integrated = <<>>
    /\ results.total_chunks_stored = 0
    /\ Len(index) > 0

----------------------------------------------------------------------------
(* The step that handles an item whose content yields no chunk *)
EmptyItemHandled ==
    /\ runPc = "items"
    /\ itemPos <= Len(data)
    /\ data[itemPos].wellFormed
    /\ data[itemPos].content = <<>>

(* C30: in a source run upsert_chunks is never called, and the store never *)
(* written, with an empty batch; the step for an item that leaves no       *)
(* record to store makes no gateway call, adds 0 to stored_chunks, and     *)
(* goes on to the next item without a result being recorded                *)
C30_NoEmptyUpsert ==
    /\ [](fn = "upsert_chunks" => batch # <<>>)
    /\ [](\A k \in OpsOf("upsert_chunks") : ops[k].n > 0)
    /\ [][index' # index => Len(index') > Len(index)]_vars
    /\ [][EmptyItemHandled =>
            /\ fn' = "none"
            /\ trace' = <<>>
            /\ index' = index
            /\ faults' = faults
            /\ OpsOf("upsert_chunks")' = {}
            /\ stored_chunks' = stored_chunks
            /\ total_chunks' = total_chunks
            /\ itemPos' = itemPos + 1
            /\ runPc' = "items"
            /\ results' = results]_vars

C30_Witness ==
    /\ runPc = "dispatch"
    /\ NumResults = 1
    /\ LastResult.success
    /\ LastResult.documents_processed = 2
    /\ LastResult.chunks_processed = 1
    /\ LastResult.chunks_stored = 1
    /\ Len(index) = 1
    /\ faults = 0

============================================================================
